---- MODULE Spec2Model ----
(***************************************************************************)
(* Model of the execution-client failover proxy (ExecutionClientManager)   *)
(* of shared/services: the two readiness flags, runFunction (the dispatch  *)
(* behind every forwarded operation), CheckStatus (refreshStatus) and      *)
(* checkClientStatus (the health monitor).                                 *)
(*                                                                         *)
(* The struct has no lock, so every read and every write of a readiness    *)
(* flag is a step of its own and callers interleave between them.  Spec    *)
(* lets NumThreads callers run concurrently; SpecSeq is the same machine   *)
(* with one caller inside the proxy at a time.                             *)
(***************************************************************************)
EXTENDS Integers, Sequences, FiniteSets

\* ------------------------------------------------------------------ bounds
\* Number of goroutines calling into the proxy.
NumThreads == 2
\* runFunction calls itself after demoting the primary; the depth of that
\* recursion has no bound in the code, the model stops invoking the primary
\* after MaxPrimaryCalls invocations in one dispatch.
MaxPrimaryCalls == 2
\* Block counts an endpoint reports in a sync progress are 0..MaxBlock.
MaxBlock == 2
\* Age of the latest block, in units of time, is 0..MaxElapsed.
MaxElapsed == 3
\* Balances, in wei, are 0..MaxWei.
MaxWei == 1

Threads == 1..NumThreads

\* ------------------------------------------------------------------ errors
\* An error message is the sequence of its words; NoErr is Go's nil error.
NoErr == << >>

\* strings.Contains on word sequences.
Contains(s, sub) ==
    \E i \in 0..(Len(s) - Len(sub)) :
        \A j \in 1..Len(sub) : s[i + j] = sub[j]

isDisconnected_AnyError(err) == TRUE

\* Returns true if the error was a connection failure.
isDisconnected(err) == Contains(err, <<"dial", "tcp">>)

ErrAllFailed == <<"all", "execution", "clients", "failed">>
ErrNoneReady == <<"no", "execution", "clients", "were", "ready">>

\* What a call on an endpoint handle can end with, besides success.  kind is
\* what happened on the wire, msg is the text of the error the handle returns.
\*   transport: the endpoint could not be reached (the dial failed)
\*   app:       the endpoint answered with an error (reverted call, bad input)
\*   cancel:    the caller's context was cancelled or its deadline passed,
\*              during the exchange or while the connection was being
\*              established (the dial then ends with the context's deadline
\*              and the handle reports the failed dial)
HandleErrors ==
    { [kind |-> "transport", msg |-> <<"Post", "dial", "tcp", "connect", "connection", "refused">>],
      [kind |-> "app",       msg |-> <<"execution", "reverted">>],
      [kind |-> "cancel",    msg |-> <<"context", "canceled">>],
      [kind |-> "cancel",    msg |-> <<"Post", "dial", "tcp", "i/o", "timeout">>] }

\* The outcomes of function(client) on handle h: the handle's own result with
\* a nil error, or a nil result with one of the errors.
CallOutcomes(h) ==
    { [kind |-> "ok", val |-> h, err |-> NoErr] } \cup
    { [kind |-> e.kind, val |-> "nil", err |-> e.msg] : e \in HandleErrors }

NoOutcome == [kind |-> "none", val |-> "nil", err |-> NoErr]

\* (interface{}, error) as runFunction returns it.
Ret(val, err) == [val |-> val, err |-> err]
NoRet == Ret("none", NoErr)

\* ------------------------------------------------------------------ state
VARIABLES
    primaryReady,     \* p.primaryReady
    fallbackReady,    \* p.fallbackReady
    fallbackEnabled,  \* p.fallbackEc != nil
    ignoreSyncCheck,  \* p.ignoreSyncCheck
    th,               \* per calling goroutine: position and locals
    entry,            \* history, kept when callers take turns: the flags at
                      \* the moment the latest operation was entered
    reg,              \* registerNode: its own position and its goroutines
    hist              \* history: fresh, no operation has been entered since
                      \* construction; demoted, a dispatch has stored false in
                      \* the primary flag and no refresh has written it since

vars == <<primaryReady, fallbackReady, fallbackEnabled, ignoreSyncCheck, th, entry, reg, hist>>

\* The zero value of api.ExecutionClientStatus; SyncProgress is a fraction.
ZeroStatus == [IsWorking |-> FALSE, IsSynced |-> FALSE,
               SyncProgress |-> <<0, 1>>, Error |-> NoErr]

\* No probe has been made.
NoAnswer == [syncErr |-> NoErr, syncing |-> FALSE, current |-> 0, highest |-> 0,
             headErr |-> NoErr, elapsed |-> 0, asked |-> FALSE]

\* A goroutine outside the proxy.
\*   pc      where it stands
\*   op      "dispatch" (a forwarded operation) or "refresh" (CheckStatus)
\*   pCalls  uses of the primary handle by this operation so far
\*   fCalls  uses of the fallback handle by this operation so far
\*   pRes    outcome of its latest call on the primary handle
\*   fRes    outcome of its latest call on the fallback handle
\*   ret     what runFunction returned
\*   status  the ExecutionClientManagerStatus CheckStatus builds and returns
\*   pAns    (refresh) what the primary answered to the probe
\*   fAns    (refresh) what the fallback answered to the probe
\*   lateP   (refresh) the dispatches whose call on the primary failed after
\*           this refresh had finished probing the primary
\*   racedP  (refresh) one of them has demoted the primary since, and no
\*           refresh has written the primary flag after that
\*   lateF, racedF  the same for the fallback
Idle == [pc |-> "idle", op |-> "none",
         pCalls |-> 0, fCalls |-> 0,
         pRes |-> NoOutcome, fRes |-> NoOutcome, ret |-> NoRet,
         status |-> [FallbackEnabled |-> FALSE,
                     PrimaryEcStatus |-> ZeroStatus,
                     FallbackEcStatus |-> ZeroStatus],
         pAns |-> NoAnswer, fAns |-> NoAnswer,
         lateP |-> {}, racedP |-> FALSE, lateF |-> {}, racedF |-> FALSE]

\* The configuration-time mode flag: live sync checks on or off.
IgnoreSyncCheckModes == BOOLEAN

\* ------------------------------------------------------ registerNode state
\* The three checks registerNode starts, and the two queries the balance
\* check starts; each is a goroutine.
Checks == {"registered", "enabled", "balance"}
Queries == {"min", "account"}
Goroutines == Checks \cup Queries

\* A goroutine: where it stands and, once it stands at a channel send, the
\* channel and the value.
\*   pc    "unborn", "call" (in its contract call or balance query), "start",
\*         "recv", "compare" (the balance check), "send", "done"
\*   chan  "success", "message", "error" (the status channels),
\*         "min", "account", "balanceError" (the balance data channels)
Unborn == [pc |-> "unborn", chan |-> "none", val |-> 0]

\* registerNode on entry.
\*   main  pc: "setup", "join" (the status loop), "register", "returned";
\*         received: successes received by the status loop; result: how it
\*         returned; submitted: the "add" transaction has been sent
\*   go    the goroutines
\*   bal   the balance check's received counter and the two balances
RegStart ==
    [main |-> [pc |-> "setup", received |-> 0, result |-> "none", submitted |-> FALSE],
     go   |-> [g \in Goroutines |-> Unborn],
     bal  |-> [received |-> 0, min |-> 0, account |-> 0]]

NewFallbackReady_Always(enabled) == TRUE

\* fallbackReady: fallbackEc != nil
NewFallbackReady(enabled) == enabled

\* NewExecutionClientManager: the proxy as the constructor returns it.
Init ==
    /\ fallbackEnabled \in BOOLEAN
    /\ ignoreSyncCheck \in IgnoreSyncCheckModes
    /\ primaryReady = TRUE
    /\ fallbackReady = NewFallbackReady(fallbackEnabled)
    /\ th = [t \in Threads |-> Idle]
    /\ entry = [p |-> primaryReady, f |-> fallbackReady]
    /\ hist = [fresh |-> TRUE, demoted |-> FALSE]
    /\ reg = RegStart

Flags == <<primaryReady, fallbackReady>>

\* A refresh that holds a finished probe of an endpoint and has not yet
\* written that endpoint's flag.
ProbedPrimary(u) == th[u].pc \in {"cs_probe_fallback", "cs_write_primary"}
ProbedFallback(u) == th[u].pc \in {"cs_write_primary", "cs_write_fallback"} /\ th[u].fCalls > 0

Config == <<fallbackEnabled, ignoreSyncCheck>>

\* No other goroutine is inside the proxy.
Alone(t) == \A u \in Threads \ {t} : th[u].pc = "idle"

\* A goroutine enters the proxy: at any time, or, when callers take turns,
\* once the others are out, the flags of that moment being recorded.
Enter(t, inTurn) ==
    /\ IF inTurn
       THEN Alone(t) /\ entry' = [p |-> primaryReady, f |-> fallbackReady]
       ELSE UNCHANGED entry
    /\ hist' = [hist EXCEPT !.fresh = FALSE]

\* ------------------------------------------------------------- runFunction
\* A forwarded operation (CodeAt, BlockNumber, ...) enters runFunction.
Dispatch(t, inTurn) ==
    /\ th[t].pc = "idle"
    /\ Enter(t, inTurn)
    /\ th' = [th EXCEPT ![t] = [Idle EXCEPT !.pc = "rf_entry", !.op = "dispatch"]]
    /\ UNCHANGED <<Flags, Config, reg>>

\* if p.primaryReady { ... } else if ...
RunFunctionEntry(t) ==
    /\ th[t].pc = "rf_entry"
    /\ th' = [th EXCEPT ![t].pc = IF primaryReady THEN "rf_primary" ELSE "rf_else"]
    /\ UNCHANGED <<Flags, Config, entry, reg, hist>>

AfterPrimary_DropResult(res) ==
    IF res.err # NoErr
    THEN IF isDisconnected(res.err)
         THEN [pc |-> "rf_primary_down", ret |-> NoRet]
         ELSE [pc |-> "done", ret |-> Ret("nil", res.err)]
    ELSE [pc |-> "rf_else", ret |-> NoRet]

AfterPrimary_NoFailover(res) ==
    IF res.err # NoErr
    THEN [pc |-> "done", ret |-> Ret("nil", res.err)]
    ELSE [pc |-> "done", ret |-> Ret(res.val, NoErr)]

\* What follows result, err := function(p.primaryEc).
AfterPrimary(res) ==
    IF res.err # NoErr
    THEN IF isDisconnected(res.err)
         THEN [pc |-> "rf_primary_down", ret |-> NoRet]
         ELSE [pc |-> "done", ret |-> Ret("nil", res.err)]
    ELSE [pc |-> "done", ret |-> Ret(res.val, NoErr)]

\* result, err := function(p.primaryEc)
CallPrimary(t) ==
    /\ th[t].pc = "rf_primary"
    /\ th[t].pCalls < MaxPrimaryCalls
    /\ \E res \in CallOutcomes("primary") :
         th' = [u \in Threads |->
                  IF u = t
                  THEN [th[u] EXCEPT !.pCalls = @ + 1,
                                     !.pRes = res,
                                     !.pc = AfterPrimary(res).pc,
                                     !.ret = AfterPrimary(res).ret]
                  ELSE IF ProbedPrimary(u) /\ AfterPrimary(res).pc = "rf_primary_down"
                       THEN [th[u] EXCEPT !.lateP = @ \cup {t}]
                       ELSE th[u]]
    /\ UNCHANGED <<Flags, Config, entry, reg, hist>>

MarkNotReady_Inverted == TRUE

\* The value runFunction stores in a flag after a disconnect.
MarkNotReady == FALSE

\* p.primaryReady = false; return p.runFunction(function)
DemotePrimary(t) ==
    /\ th[t].pc = "rf_primary_down"
    /\ primaryReady' = MarkNotReady
    /\ th' = [u \in Threads |->
                IF u = t THEN [th[u] EXCEPT !.pc = "rf_entry"]
                ELSE IF t \in th[u].lateP
                     THEN [th[u] EXCEPT !.racedP = TRUE]
                     ELSE th[u]]
    /\ hist' = [hist EXCEPT !.demoted = TRUE]
    /\ UNCHANGED <<fallbackReady, Config, entry, reg>>

AfterReadFallback_NilResult(ready) ==
    IF ready THEN [pc |-> "rf_fallback", ret |-> NoRet]
             ELSE [pc |-> "done", ret |-> Ret("nil", NoErr)]

AfterReadFallback_Always(ready) ==
    [pc |-> "rf_fallback", ret |-> NoRet]

\* } else if p.fallbackReady { ... } else { return nil, "no execution clients were ready" }
AfterReadFallback(ready) ==
    IF ready THEN [pc |-> "rf_fallback", ret |-> NoRet]
             ELSE [pc |-> "done", ret |-> Ret("nil", ErrNoneReady)]

RunFunctionElse(t) ==
    /\ th[t].pc = "rf_else"
    /\ th' = [th EXCEPT ![t].pc = AfterReadFallback(fallbackReady).pc,
                        ![t].ret = AfterReadFallback(fallbackReady).ret]
    /\ UNCHANGED <<Flags, Config, entry, reg, hist>>

AfterFallback_RawError(res) ==
    IF res.err # NoErr
    THEN [pc |-> "done", ret |-> Ret("nil", res.err)]
    ELSE [pc |-> "done", ret |-> Ret(res.val, NoErr)]

\* What follows result, err := function(p.fallbackEc).
AfterFallback(res) ==
    IF res.err # NoErr
    THEN IF isDisconnected(res.err)
         THEN [pc |-> "rf_fallback_down", ret |-> NoRet]
         ELSE [pc |-> "done", ret |-> Ret("nil", res.err)]
    ELSE [pc |-> "done", ret |-> Ret(res.val, NoErr)]

\* result, err := function(p.fallbackEc)
CallFallback(t) ==
    /\ th[t].pc = "rf_fallback"
    /\ \E res \in CallOutcomes("fallback") :
         th' = [u \in Threads |->
                  IF u = t
                  THEN [th[u] EXCEPT !.fCalls = @ + 1,
                                     !.fRes = res,
                                     !.pc = AfterFallback(res).pc,
                                     !.ret = AfterFallback(res).ret]
                  ELSE IF ProbedFallback(u) /\ AfterFallback(res).pc = "rf_fallback_down"
                       THEN [th[u] EXCEPT !.lateF = @ \cup {t}]
                       ELSE th[u]]
    /\ UNCHANGED <<Flags, Config, entry, reg, hist>>

\* p.fallbackReady = false; return nil, "all execution clients failed"
DemoteFallback(t) ==
    /\ th[t].pc = "rf_fallback_down"
    /\ fallbackReady' = MarkNotReady
    /\ th' = [u \in Threads |->
                IF u = t THEN [th[u] EXCEPT !.pc = "done", !.ret = Ret("nil", ErrAllFailed)]
                ELSE IF t \in th[u].lateF
                     THEN [th[u] EXCEPT !.racedF = TRUE]
                     ELSE th[u]]
    /\ UNCHANGED <<primaryReady, Config, entry, reg, hist>>

\* The caller takes the result and leaves the proxy.
Return(t) ==
    /\ th[t].pc = "done"
    /\ th' = [th EXCEPT ![t] = Idle]
    /\ UNCHANGED <<Flags, Config, entry, reg, hist>>

\* ------------------------------------------------------- checkClientStatus
\* float64 division of two block counts: a fraction in lowest terms, or the
\* IEEE results of a division by zero.
RECURSIVE Gcd(_, _)
Gcd(a, b) == IF b = 0 THEN a ELSE Gcd(b, a % b)

FloatDiv(c, h) ==
    IF h = 0 THEN (IF c = 0 THEN "NaN" ELSE "+Inf")
    ELSE <<c \div Gcd(c, h), h \div Gcd(c, h)>>

\* x > 1 on these floats; every comparison with NaN is false.
GreaterThanOne(x) ==
    IF x = "NaN" THEN FALSE ELSE IF x = "+Inf" THEN TRUE ELSE x[1] > x[2]

Progress_NoClamp(c, h) ==
    IF FloatDiv(c, h) = "NaN" THEN <<0, 1>> ELSE FloatDiv(c, h)

\* status.SyncProgress: the ratio, set to 1 when above 1, then to 0 when NaN.
Progress(c, h) ==
    LET raw     == FloatDiv(c, h)
        clamped == IF GreaterThanOne(raw) THEN <<1, 1>> ELSE raw
    IN  IF clamped = "NaN" THEN <<0, 1>> ELSE clamped

\* The freshness threshold of the staleness check, in units of time.
SyncThreshold == 2

\* IsSyncWithinThreshold on a header that is `elapsed` old.
IsSyncWithinThreshold(elapsed) == elapsed <= SyncThreshold

\* What an endpoint can answer to one probe.
\*   syncErr  error of client.SyncProgress, NoErr when it answered
\*   syncing  TRUE when it returned a progress, FALSE when it returned nil
\*   current, highest  the block counts of that progress
\*   headErr  error of the header fetch of IsSyncWithinThreshold
\*   elapsed  age of the latest block
\*   asked    TRUE in every answer
ProbeErrors == { <<"Post", "dial", "tcp", "connect", "connection", "refused">> }

ProbeAnswers ==
    { [syncErr |-> e, syncing |-> FALSE, current |-> 0, highest |-> 0,
       headErr |-> NoErr, elapsed |-> 0, asked |-> TRUE] : e \in ProbeErrors }
    \cup
    { [syncErr |-> NoErr, syncing |-> TRUE, current |-> c, highest |-> h,
       headErr |-> NoErr, elapsed |-> 0, asked |-> TRUE] : c \in 0..MaxBlock, h \in 0..MaxBlock }
    \cup
    { [syncErr |-> NoErr, syncing |-> FALSE, current |-> 0, highest |-> 0,
       headErr |-> e, elapsed |-> 0, asked |-> TRUE] : e \in ProbeErrors }
    \cup
    { [syncErr |-> NoErr, syncing |-> FALSE, current |-> 0, highest |-> 0,
       headErr |-> NoErr, elapsed |-> d, asked |-> TRUE] : d \in 0..MaxElapsed }

\* One answer for each return statement of checkClientStatus.
BranchAnswers ==
    { a \in ProbeAnswers :
        /\ a.syncing => (a.current = 0 /\ a.highest = MaxBlock)
        /\ a.elapsed \in {0, SyncThreshold + 1} }

SyncFailedStatus_Working(err) ==
    [ZeroStatus EXCEPT !.Error = <<"Sync", "progress", "check", "failed", "with">> \o err,
                       !.IsWorking = TRUE]

\* if err != nil { status.Error = "Sync progress check failed with [...]"; status.IsWorking = false }
SyncFailedStatus(err) ==
    [ZeroStatus EXCEPT !.Error = <<"Sync", "progress", "check", "failed", "with">> \o err,
                       !.IsWorking = FALSE]

HeadFailedStatus_Ignored(err) ==
    [ZeroStatus EXCEPT !.IsWorking = TRUE, !.IsSynced = TRUE]

\* if err != nil { status.Error = "Error checking if ... is up to date: [...]"; status.IsWorking = false }
HeadFailedStatus(err) ==
    [ZeroStatus EXCEPT !.Error = <<"Error", "checking", "if", "up", "to", "date">> \o err,
                       !.IsWorking = FALSE]

StaleStatus_FallsThrough ==
    [ZeroStatus EXCEPT !.IsWorking = TRUE,
                       !.Error = <<"Client", "claims", "to", "have", "finished", "syncing">>,
                       !.IsSynced = TRUE]

\* if !isUpToDate { status.Error = "... claims to have finished syncing, but its last block was ..." }
StaleStatus ==
    [ZeroStatus EXCEPT !.Error = <<"Client", "claims", "to", "have", "finished", "syncing">>,
                       !.IsWorking = TRUE,
                       !.IsSynced = FALSE,
                       !.SyncProgress = <<0, 1>>]

\* It's synced and it works!
SyncedStatus ==
    [ZeroStatus EXCEPT !.IsWorking = TRUE, !.IsSynced = TRUE]

SyncingStatus_SyncedWhenCaughtUp(c, h) ==
    [ZeroStatus EXCEPT !.IsWorking = TRUE,
                       !.IsSynced = (c >= h),
                       !.SyncProgress = Progress(c, h)]

\* It's not synced yet, print the progress
SyncingStatus(c, h) ==
    [ZeroStatus EXCEPT !.IsWorking = TRUE,
                       !.IsSynced = FALSE,
                       !.SyncProgress = Progress(c, h)]

\* The status of one endpoint from its answer to the probe.
checkClientStatus(a) ==
    IF a.syncErr # NoErr
    THEN SyncFailedStatus(a.syncErr)
    ELSE IF ~a.syncing
    THEN IF a.headErr # NoErr
         THEN HeadFailedStatus(a.headErr)
         ELSE IF ~IsSyncWithinThreshold(a.elapsed)
         THEN StaleStatus
         ELSE SyncedStatus
    ELSE SyncingStatus(a.current, a.highest)

\* ------------------------------------------------------------- CheckStatus
AfterStatusInit_AlwaysLive(ignore) == "cs_probe_primary"

\* if p.ignoreSyncCheck { ... return status }
AfterStatusInit(ignore) == IF ignore THEN "cs_skip_primary_working" ELSE "cs_probe_primary"

\* status := &api.ExecutionClientManagerStatus{FallbackEnabled: p.fallbackEc != nil}
CheckStatus(t, inTurn) ==
    /\ th[t].pc = "idle"
    /\ Enter(t, inTurn)
    /\ th' = [th EXCEPT ![t] = [Idle EXCEPT !.pc = AfterStatusInit(ignoreSyncCheck),
                                           !.op = "refresh",
                                           !.status.FallbackEnabled = fallbackEnabled]]
    /\ UNCHANGED <<Flags, Config, reg>>

\* status.PrimaryEcStatus.IsWorking = p.primaryReady
SkipPrimaryWorking(t) ==
    /\ th[t].pc = "cs_skip_primary_working"
    /\ th' = [th EXCEPT ![t].status.PrimaryEcStatus.IsWorking = primaryReady,
                        ![t].pc = "cs_skip_primary_synced"]
    /\ UNCHANGED <<Flags, Config, entry, reg, hist>>

\* status.PrimaryEcStatus.IsSynced = p.primaryReady; if status.FallbackEnabled
SkipPrimarySynced(t) ==
    /\ th[t].pc = "cs_skip_primary_synced"
    /\ th' = [th EXCEPT ![t].status.PrimaryEcStatus.IsSynced = primaryReady,
                        ![t].pc = IF th[t].status.FallbackEnabled
                                  THEN "cs_skip_fallback_working" ELSE "done"]
    /\ UNCHANGED <<Flags, Config, entry, reg, hist>>

\* status.FallbackEcStatus.IsWorking = p.fallbackReady
SkipFallbackWorking(t) ==
    /\ th[t].pc = "cs_skip_fallback_working"
    /\ th' = [th EXCEPT ![t].status.FallbackEcStatus.IsWorking = fallbackReady,
                        ![t].pc = "cs_skip_fallback_synced"]
    /\ UNCHANGED <<Flags, Config, entry, reg, hist>>

\* status.FallbackEcStatus.IsSynced = p.fallbackReady; return status
SkipFallbackSynced(t) ==
    /\ th[t].pc = "cs_skip_fallback_synced"
    /\ th' = [th EXCEPT ![t].status.FallbackEcStatus.IsSynced = fallbackReady,
                        ![t].pc = "done"]
    /\ UNCHANGED <<Flags, Config, entry, reg, hist>>

\* status.PrimaryEcStatus = checkClientStatus(p.primaryEc); if status.FallbackEnabled
ProbePrimary(t, answers) ==
    /\ th[t].pc = "cs_probe_primary"
    /\ \E a \in answers :
         th' = [th EXCEPT ![t].status.PrimaryEcStatus = checkClientStatus(a),
                          ![t].pAns = a,
                          ![t].pCalls = @ + 1,
                          ![t].pc = IF th[t].status.FallbackEnabled
                                    THEN "cs_probe_fallback" ELSE "cs_write_primary"]
    /\ UNCHANGED <<Flags, Config, entry, reg, hist>>

\* status.FallbackEcStatus = checkClientStatus(p.fallbackEc)
ProbeFallback(t, answers) ==
    /\ th[t].pc = "cs_probe_fallback"
    /\ \E a \in answers :
         th' = [th EXCEPT ![t].status.FallbackEcStatus = checkClientStatus(a),
                          ![t].fAns = a,
                          ![t].fCalls = @ + 1,
                          ![t].pc = "cs_write_primary"]
    /\ UNCHANGED <<Flags, Config, entry, reg, hist>>

PrimaryReadyFrom_WorkingOnly(status) == status.PrimaryEcStatus.IsWorking

\* (status.PrimaryEcStatus.IsWorking && status.PrimaryEcStatus.IsSynced)
PrimaryReadyFrom(status) ==
    status.PrimaryEcStatus.IsWorking /\ status.PrimaryEcStatus.IsSynced

\* (status.FallbackEnabled && status.FallbackEcStatus.IsWorking && status.FallbackEcStatus.IsSynced)
FallbackReadyFrom(status) ==
    status.FallbackEnabled /\ status.FallbackEcStatus.IsWorking /\ status.FallbackEcStatus.IsSynced

\* p.primaryReady = (...)
WritePrimaryReady(t) ==
    /\ th[t].pc = "cs_write_primary"
    /\ primaryReady' = PrimaryReadyFrom(th[t].status)
    /\ th' = [u \in Threads |->
                IF u = t THEN [th[u] EXCEPT !.pc = "cs_write_fallback"]
                ELSE [th[u] EXCEPT !.racedP = FALSE]]
    /\ hist' = [hist EXCEPT !.demoted = FALSE]
    /\ UNCHANGED <<fallbackReady, Config, entry, reg>>

\* p.fallbackReady = (...); return status
WriteFallbackReady(t) ==
    /\ th[t].pc = "cs_write_fallback"
    /\ fallbackReady' = FallbackReadyFrom(th[t].status)
    /\ th' = [u \in Threads |->
                IF u = t THEN [th[u] EXCEPT !.pc = "done"]
                ELSE [th[u] EXCEPT !.racedF = FALSE]]
    /\ UNCHANGED <<primaryReady, Config, entry, reg, hist>>

\* ----------------------------------------------------------- specification
\* The steps inside runFunction and CheckStatus that are the same however the
\* callers are scheduled.
Inside(t) ==
    \/ RunFunctionEntry(t)
    \/ CallPrimary(t)
    \/ DemotePrimary(t)
    \/ RunFunctionElse(t)
    \/ CallFallback(t)
    \/ DemoteFallback(t)
    \/ SkipPrimaryWorking(t)
    \/ SkipPrimarySynced(t)
    \/ SkipFallbackWorking(t)
    \/ SkipFallbackSynced(t)
    \/ WritePrimaryReady(t)
    \/ WriteFallbackReady(t)
    \/ Return(t)

\* Any number of goroutines inside the proxy at once; the endpoints give one
\* answer per outcome of a probe.
Next ==
    \E t \in Threads :
        \/ Dispatch(t, FALSE)
        \/ CheckStatus(t, FALSE)
        \/ ProbePrimary(t, BranchAnswers)
        \/ ProbeFallback(t, BranchAnswers)
        \/ Inside(t)

Spec == Init /\ [][Next]_vars

\* One goroutine inside the proxy at a time; the endpoints give every answer.
NextSeq ==
    \E t \in Threads :
        \/ Dispatch(t, TRUE)
        \/ CheckStatus(t, TRUE)
        \/ ProbePrimary(t, ProbeAnswers)
        \/ ProbeFallback(t, ProbeAnswers)
        \/ Inside(t)

SpecSeq == Init /\ [][NextSeq]_vars

\* ------------------------------------------------------------ registerNode
\* The proxy is not touched by registerNode.
Proxy == <<primaryReady, fallbackReady, fallbackEnabled, ignoreSyncCheck, th, entry, hist>>

\* A goroutine blocked in `ch <- v` on an unbuffered channel; once the value
\* is taken the goroutine is "done" and the record keeps what it sent.
Send(ch, v) == [pc |-> "send", chan |-> ch, val |-> v]

\* A goroutine that returned without sending.
Done == [pc |-> "done", chan |-> "none", val |-> 0]

\* setup(c, ...): a message or an error ends the command before any goroutine
\* is started; otherwise the three checks are started.
Setup ==
    /\ reg.main.pc = "setup"
    /\ \E o \in {"ok", "message", "error"} :
         reg' = IF o = "ok"
                THEN [reg EXCEPT !.main.pc = "join",
                                 !.go["registered"].pc = "call",
                                 !.go["enabled"].pc = "call",
                                 !.go["balance"].pc = "start"]
                ELSE [reg EXCEPT !.main.pc = "returned", !.main.result = o]
    /\ UNCHANGED Proxy

\* The contract call of the "already registered" or the "registrations
\* enabled" check returns: an error, a finding that forbids registration, or
\* a pass; the goroutine goes to the matching send.
CheckCall(g) ==
    /\ g \in {"registered", "enabled"}
    /\ reg.go[g].pc = "call"
    /\ \E ch \in {"error", "message", "success"} :
         reg' = [reg EXCEPT !.go[g] = Send(ch, 0)]
    /\ UNCHANGED Proxy

\* The balance check makes its channels and starts its two queries.
BalanceStart ==
    /\ reg.go["balance"].pc = "start"
    /\ reg' = [reg EXCEPT !.go["balance"].pc = "recv",
                          !.go["min"].pc = "call",
                          !.go["account"].pc = "call"]
    /\ UNCHANGED Proxy

\* getEtherMin or BalanceAt returns: an error, sent on balanceErrorChannel,
\* or an amount, sent on the query's own channel.
QueryCall(q) ==
    /\ q \in Queries
    /\ reg.go[q].pc = "call"
    /\ \/ reg' = [reg EXCEPT !.go[q] = Send("balanceError", 0)]
       \/ \E v \in 0..MaxWei : reg' = [reg EXCEPT !.go[q] = Send(q, v)]
    /\ UNCHANGED Proxy

OnBalanceError_Return == Done

\* case err := <-balanceErrorChannel: errorChannel <- err; return
OnBalanceError == Send("error", 0)

\* for received := 0; received < 2;
BalanceStillReceiving(received) == received < 2

\* One round of the balance check's select: it takes what one of the queries
\* is sending.
BalanceRecv ==
    /\ reg.go["balance"].pc = "recv"
    /\ \E q \in Queries :
         /\ reg.go[q].pc = "send"
         /\ reg' = IF reg.go[q].chan = "balanceError"
                   THEN [reg EXCEPT !.go[q].pc = "done",
                                    !.go["balance"] = OnBalanceError]
                   ELSE [reg EXCEPT !.go[q].pc = "done",
                                    !.bal[q] = reg.go[q].val,
                                    !.bal.received = @ + 1,
                                    !.go["balance"].pc =
                                        IF BalanceStillReceiving(reg.bal.received + 1)
                                        THEN "recv" ELSE "compare"]
    /\ UNCHANGED Proxy

\* if nodeAccountEtherBalanceWei.Cmp(minNodeAccountEtherBalanceWei) < 0
BalanceCompare ==
    /\ reg.go["balance"].pc = "compare"
    /\ reg' = [reg EXCEPT !.go["balance"] =
                  IF reg.bal.account < reg.bal.min THEN Send("message", 0)
                                                   ELSE Send("success", 0)]
    /\ UNCHANGED Proxy

StillJoining_Two(received) == received < 2

\* for received := 0; received < 3;
StillJoining(received) == received < 3

\* One round of registerNode's select: it takes what one of the checks is
\* sending; a message or an error makes it return.
JoinRecv ==
    /\ reg.main.pc = "join"
    /\ \E g \in Checks :
         /\ reg.go[g].pc = "send"
         /\ reg' = IF reg.go[g].chan = "success"
                   THEN [reg EXCEPT !.go[g].pc = "done",
                                    !.main.received = @ + 1,
                                    !.main.pc = IF StillJoining(reg.main.received + 1)
                                                THEN "join" ELSE "register"]
                   ELSE [reg EXCEPT !.go[g].pc = "done",
                                    !.main.pc = "returned",
                                    !.main.result = reg.go[g].chan]
    /\ UNCHANGED Proxy

\* After the loop: the transactor is made, or not; "add" is sent and fails,
\* or goes through.
Register ==
    /\ reg.main.pc = "register"
    /\ \E o \in {"no transactor", "add failed", "registered"} :
         reg' = [reg EXCEPT !.main.pc = "returned",
                            !.main.result = o,
                            !.main.submitted = (o # "no transactor")]
    /\ UNCHANGED Proxy

NextReg ==
    \/ Setup
    \/ \E g \in Goroutines : CheckCall(g) \/ QueryCall(g)
    \/ BalanceStart
    \/ BalanceRecv
    \/ BalanceCompare
    \/ JoinRecv
    \/ Register

SpecReg == Init /\ [][NextReg]_vars

\* Every call returns and every goroutine that can take a step gets to.
SpecRegFair == SpecReg /\ WF_vars(NextReg)

\* ------------------------------------------------------------------ claims
\* Goroutine t has an operation of kind op that has returned.
Returned(t, op) == th[t].pc = "done" /\ th[t].op = op

\* The error text names a failed dial.
DialFailure(err) == Contains(err, <<"dial", "tcp">>)

FlagsAsEntered == primaryReady = entry.p /\ fallbackReady = entry.f

\* C1: a dispatch entered with the primary ready, whose call on the primary
\* succeeded, returns the primary's result with a nil error, has not used the
\* fallback handle, and leaves both readiness flags as they were.
C1_PrimarySuccess ==
    \A t \in Threads :
        (Returned(t, "dispatch") /\ entry.p /\ th[t].pRes.kind = "ok")
        => /\ th[t].ret = [val |-> "primary", err |-> NoErr]
           /\ th[t].pCalls = 1
           /\ th[t].fCalls = 0
           /\ FlagsAsEntered

C1_Witness ==
    \E t \in Threads :
        /\ Returned(t, "dispatch") /\ entry.p /\ entry.f
        /\ th[t].pRes.kind = "ok"

\* C2 as claimed: a dispatch entered with both endpoints ready, whose call on
\* the primary failed with a transport error, has called the fallback exactly
\* once, returns exactly what that call returned, and the primary flag is false.
C2_ReturnsFallbackResult ==
    \A t \in Threads :
        (Returned(t, "dispatch") /\ entry.p /\ entry.f /\ th[t].pRes.kind = "transport")
        => /\ th[t].fCalls = 1
           /\ th[t].ret = [val |-> th[t].fRes.val, err |-> th[t].fRes.err]
           /\ ~primaryReady

\* C2 amended: ... returns exactly what the fallback call returned, unless that
\* call failed with a dial failure: then the dispatch returns the error "all
\* execution clients failed" and the fallback flag is false as well.
C2_FailoverOnce ==
    \A t \in Threads :
        (Returned(t, "dispatch") /\ entry.p /\ entry.f /\ th[t].pRes.kind = "transport")
        => /\ th[t].pCalls = 1
           /\ th[t].fCalls = 1
           /\ ~primaryReady
           /\ IF DialFailure(th[t].fRes.err)
              THEN th[t].ret = [val |-> "nil", err |-> ErrAllFailed] /\ ~fallbackReady
              ELSE /\ th[t].ret = [val |-> th[t].fRes.val, err |-> th[t].fRes.err]
                   /\ fallbackReady

C2_Witness ==
    \E t \in Threads :
        /\ Returned(t, "dispatch") /\ entry.p /\ entry.f
        /\ th[t].pRes.kind = "transport"
        /\ th[t].fRes.kind = "ok"
        /\ th[t].ret.val = "fallback"

\* C3: a dispatch entered with the primary ready, whose call on the primary
\* failed with an application error, returns that error, has not used the
\* fallback handle, and leaves both readiness flags as they were.
C3_ApplicationError ==
    \A t \in Threads :
        (Returned(t, "dispatch") /\ entry.p /\ th[t].pRes.kind = "app")
        => /\ th[t].ret = [val |-> "nil", err |-> th[t].pRes.err]
           /\ th[t].pCalls = 1
           /\ th[t].fCalls = 0
           /\ FlagsAsEntered

C3_Witness ==
    \E t \in Threads :
        /\ Returned(t, "dispatch") /\ entry.p /\ entry.f
        /\ th[t].pRes.kind = "app"
        /\ th[t].ret.err = <<"execution", "reverted">>

\* C4: a dispatch entered with both flags false fails with "no execution
\* clients were ready", has used neither handle, and both flags stay false.
C4_NoneReady ==
    \A t \in Threads :
        (Returned(t, "dispatch") /\ ~entry.p /\ ~entry.f)
        => /\ th[t].ret = [val |-> "nil", err |-> ErrNoneReady]
           /\ th[t].pCalls = 0
           /\ th[t].fCalls = 0
           /\ ~primaryReady /\ ~fallbackReady

C4_Witness ==
    \E t \in Threads :
        /\ Returned(t, "dispatch") /\ ~entry.p /\ ~entry.f
        /\ fallbackEnabled

\* C5: a dispatch entered with the primary not ready and the fallback ready,
\* whose call on the fallback failed with a transport error, fails with "all
\* execution clients failed", the fallback flag is false, and that one call
\* is the only use of a handle by the dispatch.
C5_FallbackDown ==
    \A t \in Threads :
        (Returned(t, "dispatch") /\ ~entry.p /\ entry.f /\ th[t].fRes.kind = "transport")
        => /\ th[t].ret = [val |-> "nil", err |-> ErrAllFailed]
           /\ ~fallbackReady
           /\ th[t].fCalls = 1
           /\ th[t].pCalls = 0

C5_Witness ==
    \E t \in Threads :
        /\ Returned(t, "dispatch") /\ ~entry.p /\ entry.f
        /\ th[t].fRes.kind = "transport"

\* C6: with refreshes and other dispatches running concurrently, one dispatch
\* invokes the primary handle at most once and the fallback handle at most once.
C6_SingleHop ==
    \A t \in Threads :
        th[t].op = "dispatch" => (th[t].pCalls <= 1 /\ th[t].fCalls <= 1)

\* C7: no step of a dispatch turns a readiness flag from false to true; a flag
\* turns from false to true only in the step of CheckStatus that writes it.
C7_OnlyRefreshPromotes ==
    [][ /\ \A t \in Threads :
             (th[t].pc # th'[t].pc /\ (th[t].op = "dispatch" \/ th'[t].op = "dispatch"))
             => ((primaryReady' => primaryReady) /\ (fallbackReady' => fallbackReady))
        /\ (~primaryReady /\ primaryReady')
             => \E t \in Threads : th[t].pc = "cs_write_primary" /\ th'[t].pc = "cs_write_fallback"
        /\ (~fallbackReady /\ fallbackReady')
             => \E t \in Threads : th[t].pc = "cs_write_fallback" /\ th'[t].pc = "done"
      ]_vars

\* A dispatch has succeeded on the fallback, the primary is still demoted, and
\* a refresh that found the primary working and synced is about to write.
C7_Witness ==
    \E t, u \in Threads :
        /\ Returned(t, "dispatch") /\ th[t].fRes.kind = "ok"
        /\ th[t].pRes.kind = "transport"
        /\ ~primaryReady
        /\ th[u].pc = "cs_write_primary"
        /\ th[u].status.PrimaryEcStatus.IsSynced

\* C8: with live checks on, a refresh that has returned has probed the primary
\* once, the fallback once if one is configured and not otherwise, and each
\* flag equals isWorking and isSynced of the status returned for its endpoint
\* (and a configured fallback), whatever the flags were before.
C8_RefreshOverwrites ==
    \A t \in Threads :
        (Returned(t, "refresh") /\ ~ignoreSyncCheck)
        => LET st == th[t].status IN
           /\ th[t].pCalls = 1
           /\ th[t].fCalls = (IF fallbackEnabled THEN 1 ELSE 0)
           /\ st.FallbackEnabled = fallbackEnabled
           /\ primaryReady = (st.PrimaryEcStatus.IsWorking /\ st.PrimaryEcStatus.IsSynced)
           /\ fallbackReady = (fallbackEnabled /\ st.FallbackEcStatus.IsWorking
                                               /\ st.FallbackEcStatus.IsSynced)

\* A refresh that promoted the primary and demoted the fallback.
C8_Witness ==
    \E t \in Threads :
        /\ Returned(t, "refresh") /\ ~ignoreSyncCheck /\ fallbackEnabled
        /\ ~entry.p /\ primaryReady
        /\ entry.f /\ ~fallbackReady
        /\ th[t].status.FallbackEcStatus.IsWorking

\* C9: with live checks off, a refresh that has returned has used no handle,
\* has left both flags as they were, and returns isWorking and isSynced equal
\* to the primary flag for the primary and, when a fallback is configured,
\* equal to the fallback flag for the fallback.
C9_SkipLiveCheck ==
    \A t \in Threads :
        (Returned(t, "refresh") /\ ignoreSyncCheck)
        => LET st == th[t].status IN
           /\ th[t].pCalls = 0
           /\ th[t].fCalls = 0
           /\ FlagsAsEntered
           /\ st.PrimaryEcStatus.IsWorking = primaryReady
           /\ st.PrimaryEcStatus.IsSynced = primaryReady
           /\ fallbackEnabled => /\ st.FallbackEcStatus.IsWorking = fallbackReady
                                 /\ st.FallbackEcStatus.IsSynced = fallbackReady

\* Such a refresh after the primary was demoted.
C9_Witness ==
    \E t \in Threads :
        /\ Returned(t, "refresh") /\ ignoreSyncCheck /\ fallbackEnabled
        /\ ~primaryReady /\ fallbackReady
        /\ ~th[t].status.PrimaryEcStatus.IsWorking
        /\ th[t].status.FallbackEcStatus.IsSynced

\* C10: no refresh overwrites with true the false that a dispatch stored in a
\* flag after a failure that came later than the refresh's own probe of that
\* endpoint.
C10_NoLostDemotion ==
    [][ \A t \in Threads :
          /\ ~ ( /\ th[t].pc = "cs_write_primary" /\ th'[t].pc = "cs_write_fallback"
                 /\ th[t].racedP
                 /\ ~primaryReady /\ primaryReady' )
          /\ ~ ( /\ th[t].pc = "cs_write_fallback" /\ th'[t].pc = "done"
                 /\ th[t].racedF
                 /\ ~fallbackReady /\ fallbackReady' )
      ]_vars

\* C11: a dispatch whose call on a ready endpoint ended because the caller's
\* context was cancelled or timed out, at any point of the call, returns with
\* both readiness flags as they were when it entered, and without having
\* failed over from the primary to the fallback.
C11_CancelLeavesFlags ==
    \A t \in Threads :
        Returned(t, "dispatch")
        => /\ (entry.p /\ th[t].pRes.kind = "cancel")
                => (FlagsAsEntered /\ th[t].fCalls = 0)
           /\ (~entry.p /\ entry.f /\ th[t].fRes.kind = "cancel")
                => FlagsAsEntered

C13_AsConstructed ==
    hist.fresh => (primaryReady /\ (fallbackReady <=> fallbackEnabled))

C13_Witness ==
    hist.fresh /\ ~fallbackEnabled /\ primaryReady /\ ~fallbackReady

\* The endpoint answered the probe with a sync in progress.
Syncing(a) == a.asked /\ a.syncErr = NoErr /\ a.syncing

\* x is a fraction between 0 and 1.
InUnit(x) == x # "NaN" /\ x # "+Inf" /\ x[2] > 0 /\ 0 <= x[1] /\ x[1] <= x[2]

ProgressAsClaimed(a, st) ==
    Syncing(a)
    => LET c == a.current
           h == a.highest
           x == st.SyncProgress
       IN  /\ InUnit(x)
           /\ (c = 0 /\ h = 0) => x = <<0, 1>>
           /\ c > h => x = <<1, 1>>
           /\ (c <= h /\ h > 0) => x[1] * h = c * x[2]

\* C14: the progress in the status of an endpoint that is syncing lies in
\* [0, 1]; it is 0 for current = highest = 0, 1 whenever current > highest
\* (highest = 0 included), and current / highest otherwise.
C14_ProgressClamped ==
    \A t \in Threads :
        /\ ProgressAsClaimed(th[t].pAns, th[t].status.PrimaryEcStatus)
        /\ ProgressAsClaimed(th[t].fAns, th[t].status.FallbackEcStatus)

\* current above highest, and current above a highest of 0.
C14_Witness ==
    \E t \in Threads :
        /\ Syncing(th[t].pAns) /\ th[t].pAns.current > th[t].pAns.highest
        /\ th[t].pAns.highest > 0
        /\ th[t].status.PrimaryEcStatus.SyncProgress = <<1, 1>>
        /\ Syncing(th[t].fAns) /\ th[t].fAns.current > 0 /\ th[t].fAns.highest = 0
        /\ th[t].status.FallbackEcStatus.SyncProgress = <<1, 1>>

\* The probe of the endpoint failed: the sync-progress query failed, or the
\* endpoint reported no sync in progress and the staleness check failed.
ProbeFailed(a) ==
    a.asked /\ (a.syncErr # NoErr \/ (~a.syncing /\ a.headErr # NoErr))

\* C15: with live checks on, a refresh goes on after a failed probe: it
\* returns having probed every configured endpoint, the status of an endpoint
\* whose probe failed has isWorking false, isSynced false and an error text,
\* and the flag of that endpoint is false once the refresh has returned.
C15_ProbeFailureReported ==
    \A t \in Threads :
        (th[t].op = "refresh" /\ ~ignoreSyncCheck)
        => LET st == th[t].status IN
           /\ Returned(t, "refresh")
                => (th[t].pAns.asked /\ (fallbackEnabled => th[t].fAns.asked))
           /\ ProbeFailed(th[t].pAns)
                => /\ ~st.PrimaryEcStatus.IsWorking
                   /\ ~st.PrimaryEcStatus.IsSynced
                   /\ st.PrimaryEcStatus.Error # NoErr
                   /\ Returned(t, "refresh") => ~primaryReady
           /\ ProbeFailed(th[t].fAns)
                => /\ ~st.FallbackEcStatus.IsWorking
                   /\ ~st.FallbackEcStatus.IsSynced
                   /\ st.FallbackEcStatus.Error # NoErr
                   /\ Returned(t, "refresh") => ~fallbackReady

\* Both flags were true; the sync-progress query of the primary failed and
\* the staleness check of the fallback failed.
C15_Witness ==
    \E t \in Threads :
        /\ Returned(t, "refresh") /\ ~ignoreSyncCheck
        /\ entry.p /\ entry.f
        /\ th[t].pAns.asked /\ th[t].pAns.syncErr # NoErr
        /\ th[t].fAns.asked /\ th[t].fAns.syncErr = NoErr /\ th[t].fAns.headErr # NoErr
        /\ ~primaryReady /\ ~fallbackReady

\* The endpoint reported no sync in progress and the staleness check found
\* its latest block not fresh.
Stale(a) ==
    /\ a.asked /\ a.syncErr = NoErr /\ ~a.syncing /\ a.headErr = NoErr
    /\ ~IsSyncWithinThreshold(a.elapsed)

\* C16: the status of an endpoint that reports no sync in progress but whose
\* latest block is not fresh has isWorking true, isSynced false and an error
\* text, and the flag of that endpoint is false once the refresh has returned.
C16_StaleNotReady ==
    \A t \in Threads :
        (th[t].op = "refresh" /\ ~ignoreSyncCheck)
        => LET st == th[t].status IN
           /\ Stale(th[t].pAns)
                => /\ st.PrimaryEcStatus.IsWorking
                   /\ ~st.PrimaryEcStatus.IsSynced
                   /\ st.PrimaryEcStatus.Error # NoErr
                   /\ Returned(t, "refresh") => ~primaryReady
           /\ Stale(th[t].fAns)
                => /\ st.FallbackEcStatus.IsWorking
                   /\ ~st.FallbackEcStatus.IsSynced
                   /\ st.FallbackEcStatus.Error # NoErr
                   /\ Returned(t, "refresh") => ~fallbackReady

C16_Witness ==
    \E t \in Threads :
        /\ Returned(t, "refresh") /\ ~ignoreSyncCheck
        /\ entry.p /\ Stale(th[t].pAns) /\ ~primaryReady
        /\ th[t].status.PrimaryEcStatus.IsWorking

\* C17: the status of an endpoint that reports a sync in progress has
\* isWorking true and isSynced false whatever current and highest are, the
\* flag of that endpoint is false once the refresh has returned, and a
\* dispatch entered with a flag false does not use that endpoint's handle.
C17_SyncingNotReady ==
    \A t \in Threads :
        /\ (th[t].op = "refresh" /\ ~ignoreSyncCheck)
             => LET st == th[t].status IN
                /\ Syncing(th[t].pAns)
                     => /\ st.PrimaryEcStatus.IsWorking
                        /\ ~st.PrimaryEcStatus.IsSynced
                        /\ Returned(t, "refresh") => ~primaryReady
                /\ Syncing(th[t].fAns)
                     => /\ st.FallbackEcStatus.IsWorking
                        /\ ~st.FallbackEcStatus.IsSynced
                        /\ Returned(t, "refresh") => ~fallbackReady
        /\ th[t].op = "dispatch"
             => /\ ~entry.p => th[t].pCalls = 0
                /\ ~entry.f => th[t].fCalls = 0

\* The primary was ready and reports a sync in progress that has caught up.
C17_Witness ==
    \E t \in Threads :
        /\ Returned(t, "refresh") /\ ~ignoreSyncCheck
        /\ entry.p /\ ~primaryReady
        /\ Syncing(th[t].pAns)
        /\ th[t].pAns.highest > 0 /\ th[t].pAns.current >= th[t].pAns.highest

\* C18: from the step in which a dispatch stores false in the primary flag
\* until a refresh writes that flag, no dispatch invokes the primary handle.
C18_DemotionSticks ==
    [][ hist.demoted
          => \A t \in Threads :
                 th'[t].op = "dispatch" => th'[t].pCalls <= th[t].pCalls
      ]_vars

\* A dispatch entered after the demotion has succeeded on the fallback.
C18_Witness ==
    \E t \in Threads :
        /\ hist.demoted
        /\ Returned(t, "dispatch") /\ ~entry.p
        /\ th[t].pCalls = 0
        /\ th[t].fRes.kind = "ok"

\* C19: a dispatch whose call on the fallback failed with an application
\* error, the fallback being used directly or after the primary failed,
\* returns that error, the fallback flag stays true, and the primary flag is
\* false.
C19_FallbackApplicationError ==
    \A t \in Threads :
        (Returned(t, "dispatch") /\ entry.f /\ th[t].fRes.kind = "app")
        => /\ th[t].ret = [val |-> "nil", err |-> th[t].fRes.err]
           /\ th[t].fCalls = 1
           /\ fallbackReady
           /\ ~primaryReady

\* The failover case.
C19_Witness ==
    \E t \in Threads :
        /\ Returned(t, "dispatch") /\ entry.p /\ entry.f
        /\ th[t].pRes.kind = "transport"
        /\ th[t].fRes.kind = "app"
        /\ th[t].ret.err = <<"execution", "reverted">>

SyncedOnlyWhenFresh(a, st) ==
    (a.asked /\ st.IsSynced)
    => /\ st.IsWorking
       /\ st.Error = NoErr
       /\ a.syncErr = NoErr
       /\ ~a.syncing
       /\ a.headErr = NoErr
       /\ IsSyncWithinThreshold(a.elapsed)

\* C20: a status that checkClientStatus produced with isSynced true has
\* isWorking true and no error text, and comes from an endpoint whose
\* sync-progress query succeeded with no sync in progress and whose staleness
\* check succeeded and found the latest block fresh.
C20_SyncedImpliesWorking ==
    \A t \in Threads :
        /\ SyncedOnlyWhenFresh(th[t].pAns, th[t].status.PrimaryEcStatus)
        /\ SyncedOnlyWhenFresh(th[t].fAns, th[t].status.FallbackEcStatus)

C20_Witness ==
    \E t \in Threads :
        /\ th[t].pAns.asked /\ th[t].status.PrimaryEcStatus.IsSynced
        /\ th[t].fAns.asked /\ ~th[t].status.FallbackEcStatus.IsSynced
        /\ th[t].fAns.elapsed > SyncThreshold

\* C21: in every interleaving of dispatches and refreshes the fallback flag is
\* true only if a fallback is configured, no dispatch stands before a call on
\* the fallback handle without one, and none has made such a call.
C21_FallbackReadyOnlyIfConfigured ==
    /\ fallbackReady => fallbackEnabled
    /\ \A t \in Threads :
          th[t].op = "dispatch"
          => /\ th[t].pc \in {"rf_fallback", "rf_fallback_down"} => fallbackEnabled
             /\ th[t].fCalls > 0 => fallbackEnabled

\* No fallback is configured; a dispatch lost the primary and found nothing
\* to fail over to, and a refresh with live checks has returned.
C21_Witness ==
    /\ ~fallbackEnabled /\ ~fallbackReady /\ ~ignoreSyncCheck
    /\ \E t, u \in Threads :
          /\ Returned(t, "dispatch")
          /\ th[t].pRes.kind = "transport"
          /\ th[t].ret.err = ErrNoneReady
          /\ Returned(u, "refresh")

\* C22: with live checks off no step turns a readiness flag from false to
\* true; and while both flags are false, a dispatch that reads the primary
\* flag goes on to read the fallback flag, one that reads the fallback flag
\* returns "no execution clients were ready" having used no handle since, and
\* a refresh copies false into the isWorking and isSynced it reports.
C22_SkipModeMonotonic ==
    [][ ignoreSyncCheck
          => /\ primaryReady' => primaryReady
             /\ fallbackReady' => fallbackReady
             /\ (~primaryReady /\ ~fallbackReady)
                  => \A t \in Threads :
                       /\ (th[t].pc = "rf_entry" /\ th'[t].pc # "rf_entry")
                            => th'[t].pc = "rf_else"
                       /\ (th[t].pc = "rf_else" /\ th'[t].pc # "rf_else")
                            => /\ th'[t].pc = "done"
                               /\ th'[t].ret = [val |-> "nil", err |-> ErrNoneReady]
                               /\ th'[t].pCalls = th[t].pCalls
                               /\ th'[t].fCalls = th[t].fCalls
                       /\ (th[t].pc = "cs_skip_primary_working" /\ th'[t].pc # th[t].pc)
                            => ~th'[t].status.PrimaryEcStatus.IsWorking
                       /\ (th[t].pc = "cs_skip_primary_synced" /\ th'[t].pc # th[t].pc)
                            => ~th'[t].status.PrimaryEcStatus.IsSynced
                       /\ (th[t].pc = "cs_skip_fallback_working" /\ th'[t].pc # th[t].pc)
                            => ~th'[t].status.FallbackEcStatus.IsWorking
                       /\ (th[t].pc = "cs_skip_fallback_synced" /\ th'[t].pc # th[t].pc)
                            => ~th'[t].status.FallbackEcStatus.IsSynced
      ]_vars

\* Both endpoints were demoted; a dispatch has since failed without using a
\* handle and a refresh has reported both endpoints as not working.
C22_Witness ==
    /\ ignoreSyncCheck /\ fallbackEnabled
    /\ ~primaryReady /\ ~fallbackReady
    /\ \E t, u \in Threads :
          /\ Returned(t, "dispatch")
          /\ th[t].pCalls = 0 /\ th[t].fCalls = 0
          /\ th[t].ret.err = ErrNoneReady
          /\ Returned(u, "refresh")
          /\ ~th[u].status.PrimaryEcStatus.IsWorking
          /\ ~th[u].status.PrimaryEcStatus.IsSynced
          /\ ~th[u].status.FallbackEcStatus.IsWorking
          /\ ~th[u].status.FallbackEcStatus.IsSynced

\* Check g has found something that forbids the registration, or has failed.
Refuses(g) ==
    reg.go[g].pc \in {"send", "done"} /\ reg.go[g].chan \in {"message", "error"}

\* C23: the "add" transaction has been sent only if the status loop received
\* three successes, one from each check; once a check reports a message or
\* an error, registerNode is not past the loop on its way to register, and
\* it has sent no transaction.
C23_AddOnlyAfterAllChecks ==
    /\ reg.main.submitted
         => /\ reg.main.received = 3
            /\ \A g \in Checks : reg.go[g].pc = "done" /\ reg.go[g].chan = "success"
    /\ reg.main.result \in {"message", "error"} => ~reg.main.submitted
    /\ (\E g \in Checks : Refuses(g))
         => (~reg.main.submitted /\ reg.main.pc # "register")

\* The registration went through, the balance being no less than the minimum.
C23_Witness ==
    /\ reg.main.pc = "returned"
    /\ reg.main.submitted
    /\ reg.main.result = "registered"
    /\ reg.bal.received = 2
    /\ reg.bal.account >= reg.bal.min

\* C24: when every call returns and scheduling is fair, the status loop of
\* registerNode is left: after three successes, or with a message or an error.
C24_JoinTerminates ==
    (reg.main.pc = "join")
      ~> ( /\ reg.main.pc \in {"register", "returned"}
           /\ \/ reg.main.received = 3
              \/ reg.main.result \in {"message", "error"} )

\* Both balance queries failed and the loop was left with the error.
C24_Witness ==
    /\ reg.main.pc = "returned"
    /\ reg.main.result = "error"
    /\ reg.go["balance"].pc = "done" /\ reg.go["balance"].chan = "error"
    /\ \A q \in Queries : reg.go[q].chan = "balanceError"

\* Goroutine g stands at a send that nothing will ever take: the only
\* receiver of its channel has left the loop that receives from it.
BlockedForever(g) ==
    /\ reg.go[g].pc = "send"
    /\ IF g \in Checks
       THEN reg.main.pc \in {"register", "returned"}
       ELSE reg.go["balance"].pc \in {"compare", "send", "done"}

\* C25: once registerNode has returned, none of the goroutines it started is
\* blocked forever on a send.
C25_NoGoroutineLeft ==
    reg.main.pc = "returned" => \A g \in Goroutines : ~BlockedForever(g)

====
